---- MODULE Spec2Model ----
(***************************************************************************)
(* Model of the ventura sprite renderer: the winit application handler     *)
(* (src/src/application.rs), the render context (src/src/render/context.rs)*)
(* and the sprite pipeline (src/src/render/sprite/pipeline.rs).            *)
(*                                                                         *)
(* GPU and window calls are recorded, in call order, in the variable       *)
(* `log`: it holds the calls made by the most recent handler or operation; *)
(* render ends its part with the value it returns.                         *)
(* Lengths are in f32 units of the source unless stated; buffer sizes and  *)
(* offsets are in bytes.  Rotations are counted in quarter turns so that   *)
(* the rotation matrix has integer entries.                                *)
(***************************************************************************)
EXTENDS Integers, Sequences, FiniteSets, TLC

VARIABLES
    world,            \* hecs World: entities in the store's iteration order
    render_context,   \* Option<RenderContext>: <<>> or <<ctx>>
    primary_window,   \* Option<Arc<Window>>: <<>> or <<window id>>
    window_size,      \* what window.inner_size() returns now
    pending,          \* a Resized event reporting window_size is queued
    log,              \* calls made by the most recent handler
    exiting,          \* event_loop.exit() was called
    resumes,          \* number of resumed() callbacks delivered
    event,            \* the most recent handler or operation and its inputs
    panicked,         \* the process has panicked
    redraw_requested, \* window.request_redraw() was called, its event not yet delivered
    last_frame,       \* VenturaApp::last_frame, an Instant: the clock modulo 2
    returned          \* what the function called last on its own returned

vars == <<world, render_context, primary_window, window_size, pending, log,
          exiting, resumes, event, panicked, redraw_requested, last_frame, returned>>

(***************************************************************************)
(* Bounds of the model.                                                    *)
(***************************************************************************)
MaxDim == 2          \* number of distinct non-empty window sizes
MaxResumed == 2      \* resumed() callbacks delivered
MaxEntities == 2     \* entities of an enumerated small world
MaxBytes == 5        \* length of a byte string given to Texture::from_bytes
MaxByte == 2         \* largest byte value in such a string
MaxCoord == 1        \* largest coordinate of an enumerated transform
MaxScale == 2        \* largest scale factor of an enumerated transform

(***************************************************************************)
(* Program constants.                                                      *)
(***************************************************************************)
MAX_INSTANCES == 10000
SIZE_OF_Mat4 == 64
INDEX_COUNT == 6

CLEAR_COLOR == [r |-> 1, g |-> 1, b |-> 1, a |-> 100]   \* in hundredths

None == <<>>
Some(x) == <<x>>
IsSome(o) == Len(o) = 1
Unwrap(o) == o[1]

\* Window sizes <<width, height>>: sides are even, width and height differ.
PositiveSizes == {<<2 * k + 2, 2 * k>> : k \in 1..MaxDim}
Sizes == {<<0, 0>>, <<0, 2>>, <<4, 0>>} \cup PositiveSizes

SurfaceErrors == {"Lost", "Outdated", "Timeout", "OutOfMemory", "Other"}
AcquireResults == {"Ok"} \cup SurfaceErrors

Call(op, target, args) == [op |-> op, target |-> target, args |-> args]

\* How many calls of `op` the log l holds, and where the first one is.
Calls(l, op) == Cardinality({i \in 1..Len(l) : l[i].op = op})
Pos(l, op) == CHOOSE i \in 1..Len(l) : l[i].op = op /\ \A j \in 1..(i - 1) : l[j].op # op

(***************************************************************************)
(* Mat4 as four rows of four integers.                                     *)
(***************************************************************************)
Mat4_mul(a, b) ==
    [i \in 1..4 |-> [j \in 1..4 |->
        a[i][1] * b[1][j] + a[i][2] * b[2][j] + a[i][3] * b[3][j] + a[i][4] * b[4][j]]]

Mat4_from_translation(v) ==
    << <<1, 0, 0, v[1]>>, <<0, 1, 0, v[2]>>, <<0, 0, 1, v[3]>>, <<0, 0, 0, 1>> >>

Cos4(q) == CASE q % 4 = 0 -> 1 [] q % 4 = 1 -> 0 [] q % 4 = 2 -> -1 [] OTHER -> 0
Sin4(q) == CASE q % 4 = 0 -> 0 [] q % 4 = 1 -> 1 [] q % 4 = 2 -> 0 [] OTHER -> -1

Mat4_from_rotation_z(q) ==
    << <<Cos4(q), -Sin4(q), 0, 0>>, <<Sin4(q), Cos4(q), 0, 0>>, <<0, 0, 1, 0>>, <<0, 0, 0, 1>> >>

Mat4_from_scale(v) ==
    << <<v[1], 0, 0, 0>>, <<0, v[2], 0, 0>>, <<0, 0, v[3], 0>>, <<0, 0, 0, 1>> >>

(***************************************************************************)
(* transform.rs                                                            *)
(***************************************************************************)
Transform_new(position, rotation, scale) ==
    [position |-> position, rotation |-> rotation, scale |-> scale]

Transform_default == [position |-> <<0, 0>>, scale |-> <<32, 32>>, rotation |-> 0]

Transform_from_translation(x, y) == [Transform_default EXCEPT !.position = <<x, y>>]

\* matrix with the factors in the opposite order.
matrix_scale_first(self) ==
    LET translation == Mat4_from_translation(<<self.position[1], self.position[2], 0>>)
        rotation == Mat4_from_rotation_z(self.rotation)
        scale == Mat4_from_scale(<<self.scale[1], self.scale[2], 1>>)
    IN  Mat4_mul(Mat4_mul(scale, rotation), translation)

matrix(self) ==
    LET translation == Mat4_from_translation(<<self.position[1], self.position[2], 0>>)
        rotation == Mat4_from_rotation_z(self.rotation)
        scale == Mat4_from_scale(<<self.scale[1], self.scale[2], 1>>)
    IN  Mat4_mul(Mat4_mul(translation, rotation), scale)

(***************************************************************************)
(* An entity is its component set and its Transform value (read only when  *)
(* "Transform" is among the components).                                   *)
(***************************************************************************)
Entity(components, transform) == [components |-> components, transform |-> transform]

SpriteInstanceData_new(transform) == [transform |-> transform]

HasAll(e, components) == components \subseteq e.components

\* world.query::<components>().iter() on a world given in the order its
\* entities were spawned (none is despawned in this program): hecs keeps the
\* entities of one set of component types together, in an archetype; a query
\* visits the archetypes in the order they were first used and, within one,
\* the entities in the order they were spawned.
RECURSIVE World_query(_, _)
World_query(w, components) ==
    IF w = <<>> THEN <<>>
    ELSE LET archetype == Head(w).components
             members == SelectSeq(w, LAMBDA e : e.components = archetype)
             others == SelectSeq(w, LAMBDA e : e.components # archetype)
         IN  (IF HasAll(Head(w), components) THEN members ELSE <<>>)
             \o World_query(others, components)

(***************************************************************************)
(* render/util.rs: the storage buffer of a StorageBinding.  `contents` is  *)
(* the run of records that writes have placed from byte 0 on.              *)
(***************************************************************************)
StorageBinding_create(max_elements) ==
    [size |-> max_elements * SIZE_OF_Mat4, contents |-> <<>>]

\* queue.write_buffer(buffer, 0, data): the records of data replace those at
\* the same places; records further on keep their value.  A write that would
\* run past the end of the buffer is refused by wgpu's validation and the
\* buffer keeps its contents.
write_buffer(buffer, data) ==
    IF Len(data) * SIZE_OF_Mat4 > buffer.size
    THEN buffer
    ELSE [buffer EXCEPT !.contents = data \o SubSeq(@, Len(data) + 1, Len(@))]

(***************************************************************************)
(* render/sprite/pipeline.rs                                               *)
(***************************************************************************)
SpritePipeline_new ==
    [instance_binding |-> StorageBinding_create(MAX_INSTANCES), instance_count |-> 0]

\* prepare that adds the new records after those of the call before.
prepare_append(self, w) ==
    LET query == World_query(w, {"Transform", "Sprite"})
        instances == [i \in 1..Len(query) |-> SpriteInstanceData_new(matrix(query[i].transform))]
        held == SubSeq(self.instance_binding.contents, 1, self.instance_count)
    IN  [self |-> [instance_binding |-> write_buffer(self.instance_binding, held \o instances),
                   instance_count |-> self.instance_count + Len(instances)],
         log |-> << Call("write_buffer", "instance_buffer",
                         <<self.instance_count * SIZE_OF_Mat4, Len(instances) * SIZE_OF_Mat4>>) >>]

\* prepare that takes every entity with a Transform.
prepare_all_transforms(self, w) ==
    LET query == World_query(w, {"Transform"})
        instances == [i \in 1..Len(query) |-> SpriteInstanceData_new(matrix(query[i].transform))]
    IN  [self |-> [instance_binding |-> write_buffer(self.instance_binding, instances),
                   instance_count |-> Len(instances)],
         log |-> << Call("write_buffer", "instance_buffer", <<0, Len(instances) * SIZE_OF_Mat4>>) >>]

prepare(self, w) ==
    LET query == World_query(w, {"Transform", "Sprite"})
        instances == [i \in 1..Len(query) |-> SpriteInstanceData_new(matrix(query[i].transform))]
    IN  [self |-> [instance_binding |-> write_buffer(self.instance_binding, instances),
                   instance_count |-> Len(instances)],
         log |-> << Call("write_buffer", "instance_buffer", <<0, Len(instances) * SIZE_OF_Mat4>>) >>]

\* draw with the instance range of a single quad.
draw_single_instance(self) ==
    << Call("set_pipeline", "pipeline", <<>>),
       Call("set_vertex_buffer", "vertex_buffer", <<0>>),
       Call("set_index_buffer", "index_buffer", <<>>),
       Call("set_bind_group", "camera_bind_group", <<0>>),
       Call("set_bind_group", "instance_binding", <<1>>),
       Call("set_bind_group", "texture_binding", <<2>>),
       Call("draw_indexed", "", <<0, INDEX_COUNT, 0, 0, 1>>) >>

\* draw that sets the bind groups before the vertex and index buffers.
draw_groups_first(self) ==
    << Call("set_pipeline", "pipeline", <<>>),
       Call("set_bind_group", "camera_bind_group", <<0>>),
       Call("set_bind_group", "instance_binding", <<1>>),
       Call("set_bind_group", "texture_binding", <<2>>),
       Call("set_vertex_buffer", "vertex_buffer", <<0>>),
       Call("set_index_buffer", "index_buffer", <<>>),
       Call("draw_indexed", "", <<0, INDEX_COUNT, 0, 0, self.instance_count>>) >>

draw(self) ==
    << Call("set_pipeline", "pipeline", <<>>),
       Call("set_vertex_buffer", "vertex_buffer", <<0>>),
       Call("set_index_buffer", "index_buffer", <<>>),
       Call("set_bind_group", "camera_bind_group", <<0>>),
       Call("set_bind_group", "instance_binding", <<1>>),
       Call("set_bind_group", "texture_binding", <<2>>),
       Call("draw_indexed", "", <<0, INDEX_COUNT, 0, 0, self.instance_count>>) >>

(***************************************************************************)
(* render/texture.rs.  image::load_from_memory stands for a decoder of one *)
(* image format: a byte string is an image when it starts with the format  *)
(* byte 1, followed by a width and a height of at least 1 and by width *   *)
(* height pixel bytes.  Any other first byte is an unsupported format, any *)
(* other rest a decoding error.                                            *)
(***************************************************************************)
image_load_from_memory(bytes) ==
    IF Len(bytes) = 0 \/ bytes[1] # 1
    THEN [ok |-> FALSE, error |-> "Unsupported"]
    ELSE IF Len(bytes) < 3 \/ bytes[2] < 1 \/ bytes[3] < 1 \/ Len(bytes) # 3 + bytes[2] * bytes[3]
    THEN [ok |-> FALSE, error |-> "Decoding"]
    ELSE [ok |-> TRUE, width |-> bytes[2], height |-> bytes[3],
          pixels |-> SubSeq(bytes, 4, Len(bytes))]

\* from_bytes with the GPU texture created before the bytes are decoded.
Texture_from_bytes_texture_first(bytes) ==
    LET texture_image == image_load_from_memory(bytes)
    IN  IF ~texture_image.ok
        THEN [result |-> texture_image.error,
              log |-> << Call("create_texture", "device", <<0, 0>>) >>]
        ELSE [result |-> "Ok",
              log |-> << Call("create_texture", "device",
                              <<texture_image.width, texture_image.height>>),
                         Call("write_texture", "queue",
                              <<4 * texture_image.width, texture_image.height>>),
                         Call("create_view", "raw_texture", <<>>),
                         Call("create_sampler", "device", <<>>) >>]

Texture_from_bytes(bytes) ==
    LET texture_image == image_load_from_memory(bytes)
    IN  IF ~texture_image.ok
        THEN [result |-> texture_image.error, log |-> <<>>]
        ELSE [result |-> "Ok",
              log |-> << Call("create_texture", "device",
                              <<texture_image.width, texture_image.height>>),
                         Call("write_texture", "queue",
                              <<4 * texture_image.width, texture_image.height>>),
                         Call("create_view", "raw_texture", <<>>),
                         Call("create_sampler", "device", <<>>) >>]

(***************************************************************************)
(* render/camera.rs.  Mat4::orthographic_rh and Mat4::look_at_rh are kept  *)
(* as the record of their arguments; window sides are even, so the halves  *)
(* are exact.                                                              *)
(***************************************************************************)
OrthographicProjection_matrix(window_width, window_height) ==
    LET half_width == window_width \div 2
        half_height == window_height \div 2
    IN  [left |-> -half_width, right |-> half_width,
         bottom |-> -half_height, top |-> half_height, near |-> -1, far |-> 1]

Mat4_look_at_rh(eye, center, up) == [eye |-> eye, center |-> center, up |-> up]

\* A product of matrices is the sequence of its factors; the empty product
\* is the identity.
Mat4_IDENTITY == <<>>

CameraUniform(view_projection) == [view_projection |-> view_projection]

(***************************************************************************)
(* render/context.rs                                                       *)
(***************************************************************************)
RenderContext_new(size) ==
    [surface_configuration |-> [width |-> size[1], height |-> size[2]],
     camera_buffer |-> CameraUniform(Mat4_IDENTITY),
     sprite_pipeline |-> SpritePipeline_new]

\* update_camera_buffer that writes the uniform only while the buffer holds
\* its initial contents.
update_camera_buffer_cached(self, w) ==
    LET query == World_query(w, {"Transform", "OrthographicProjection", "PrimaryCamera"})
        data(transform) ==
            LET position == <<transform.position[1], transform.position[2], 0>>
                view == Mat4_look_at_rh(position,
                            <<position[1], position[2], position[3] + 1>>, <<0, 1, 0>>)
                projection == OrthographicProjection_matrix(
                                  self.surface_configuration.width,
                                  self.surface_configuration.height)
            IN  CameraUniform(<<projection, view>>)
        fresh == self.camera_buffer = CameraUniform(Mat4_IDENTITY)
    IN  [camera_buffer |-> IF query = <<>> \/ ~fresh THEN self.camera_buffer
                           ELSE data(query[Len(query)].transform),
         log |-> [i \in 1..Len(query) |->
                     Call("write_buffer", "camera_buffer", <<0, SIZE_OF_Mat4>>)]]

\* update_camera_buffer that keeps the uniform of the first camera visited.
update_camera_buffer_first(self, w) ==
    LET query == World_query(w, {"Transform", "OrthographicProjection", "PrimaryCamera"})
        data(transform) ==
            LET position == <<transform.position[1], transform.position[2], 0>>
                view == Mat4_look_at_rh(position,
                            <<position[1], position[2], position[3] + 1>>, <<0, 1, 0>>)
                projection == OrthographicProjection_matrix(
                                  self.surface_configuration.width,
                                  self.surface_configuration.height)
            IN  CameraUniform(<<projection, view>>)
    IN  [camera_buffer |-> IF query = <<>> THEN self.camera_buffer
                           ELSE data(query[1].transform),
         log |-> [i \in 1..Len(query) |->
                     Call("write_buffer", "camera_buffer", <<0, SIZE_OF_Mat4>>)]]

update_camera_buffer(self, w) ==
    LET query == World_query(w, {"Transform", "OrthographicProjection", "PrimaryCamera"})
        data(transform) ==
            LET position == <<transform.position[1], transform.position[2], 0>>
                view == Mat4_look_at_rh(position,
                            <<position[1], position[2], position[3] + 1>>, <<0, 1, 0>>)
                projection == OrthographicProjection_matrix(
                                  self.surface_configuration.width,
                                  self.surface_configuration.height)
            IN  CameraUniform(<<projection, view>>)
    IN  [camera_buffer |-> IF query = <<>> THEN self.camera_buffer
                           ELSE data(query[Len(query)].transform),
         log |-> [i \in 1..Len(query) |->
                     Call("write_buffer", "camera_buffer", <<0, SIZE_OF_Mat4>>)]]

\* render with the camera uniform written before the surface image is acquired.
render_camera_before_acquire(self, w, acquired) ==
    LET camera == update_camera_buffer(self, w)
        updated == [self EXCEPT !.camera_buffer = camera.camera_buffer]
        early == << Call("update_camera_buffer", "self", <<>>) >> \o camera.log
    IN  IF acquired # "Ok"
        THEN [self |-> updated,
              log |-> early \o << Call("get_current_texture", acquired, <<>>),
                                  Call("return", acquired, <<>>) >>,
              result |-> acquired]
        ELSE LET prepared == prepare(self.sprite_pipeline, w)
             IN  [self |-> [updated EXCEPT !.sprite_pipeline = prepared.self],
                  log |-> early
                          \o << Call("get_current_texture", "Ok", <<>>),
                                Call("create_view", "output", <<>>),
                                Call("create_command_encoder", "device", <<>>),
                                Call("prepare", "sprite_pipeline", <<>>) >>
                          \o prepared.log
                          \o << Call("begin_render_pass", "encoder",
                                     <<CLEAR_COLOR.r, CLEAR_COLOR.g, CLEAR_COLOR.b, CLEAR_COLOR.a>>),
                                Call("draw", "sprite_pipeline", <<>>) >>
                          \o draw(prepared.self)
                          \o << Call("end_render_pass", "encoder", <<>>),
                                Call("submit", "queue", <<>>),
                                Call("present", "output", <<>>),
                                Call("return", "Ok", <<>>) >>,
                  result |-> "Ok"]

\* render with the pass recorded before the camera and the instances are
\* written: draw reads the instance count of the frame before.
render_draw_before_prepare(self, w, acquired) ==
    IF acquired # "Ok"
    THEN [self |-> self,
          log |-> << Call("get_current_texture", acquired, <<>>),
                     Call("return", acquired, <<>>) >>,
          result |-> acquired]
    ELSE LET camera == update_camera_buffer(self, w)
             prepared == prepare(self.sprite_pipeline, w)
         IN  [self |-> [self EXCEPT !.camera_buffer = camera.camera_buffer,
                                    !.sprite_pipeline = prepared.self],
              log |-> << Call("get_current_texture", "Ok", <<>>),
                         Call("create_view", "output", <<>>),
                         Call("create_command_encoder", "device", <<>>),
                         Call("begin_render_pass", "encoder",
                              <<CLEAR_COLOR.r, CLEAR_COLOR.g, CLEAR_COLOR.b, CLEAR_COLOR.a>>),
                         Call("draw", "sprite_pipeline", <<>>) >>
                      \o draw(self.sprite_pipeline)
                      \o << Call("end_render_pass", "encoder", <<>>),
                            Call("update_camera_buffer", "self", <<>>) >>
                      \o camera.log
                      \o << Call("prepare", "sprite_pipeline", <<>>) >>
                      \o prepared.log
                      \o << Call("submit", "queue", <<>>),
                            Call("present", "output", <<>>),
                            Call("return", "Ok", <<>>) >>,
              result |-> "Ok"]

render(self, w, acquired) ==
    IF acquired # "Ok"
    THEN [self |-> self,
          log |-> << Call("get_current_texture", acquired, <<>>),
                     Call("return", acquired, <<>>) >>,
          result |-> acquired]
    ELSE LET camera == update_camera_buffer(self, w)
             prepared == prepare(self.sprite_pipeline, w)
         IN  [self |-> [self EXCEPT !.camera_buffer = camera.camera_buffer,
                                    !.sprite_pipeline = prepared.self],
              log |-> << Call("get_current_texture", "Ok", <<>>),
                         Call("create_view", "output", <<>>),
                         Call("create_command_encoder", "device", <<>>),
                         Call("update_camera_buffer", "self", <<>>) >>
                      \o camera.log
                      \o << Call("prepare", "sprite_pipeline", <<>>) >>
                      \o prepared.log
                      \o << Call("begin_render_pass", "encoder",
                                 <<CLEAR_COLOR.r, CLEAR_COLOR.g, CLEAR_COLOR.b, CLEAR_COLOR.a>>),
                            Call("draw", "sprite_pipeline", <<>>) >>
                      \o draw(prepared.self)
                      \o << Call("end_render_pass", "encoder", <<>>),
                            Call("submit", "queue", <<>>),
                            Call("present", "output", <<>>),
                            Call("return", "Ok", <<>>) >>,
              result |-> "Ok"]

\* resize without the test for an empty size.
resize_unguarded(self, new_width, new_height) ==
    [self |-> [self EXCEPT !.surface_configuration.width = new_width,
                           !.surface_configuration.height = new_height],
     log |-> << Call("configure", "surface", <<new_width, new_height>>) >>]

\* resize that tests the width alone.
resize_width_only(self, new_width, new_height) ==
    IF new_width > 0
    THEN [self |-> [self EXCEPT !.surface_configuration.width = new_width,
                                !.surface_configuration.height = new_height],
          log |-> << Call("configure", "surface", <<new_width, new_height>>) >>]
    ELSE [self |-> self,
          log |-> << Call("warn", "resize", <<>>) >>]

resize(self, new_width, new_height) ==
    IF new_width > 0 /\ new_height > 0
    THEN [self |-> [self EXCEPT !.surface_configuration.width = new_width,
                                !.surface_configuration.height = new_height],
          log |-> << Call("configure", "surface", <<new_width, new_height>>) >>]
    ELSE [self |-> self,
          log |-> << Call("warn", "resize", <<>>) >>]

(***************************************************************************)
(* wgpu reports a refused write to the device's uncaptured-error handler.  *)
(* The source installs none and pushes no error scope; the handler of the  *)
(* wgpu build then decides: it panics, or it logs and the call returns.    *)
(* Both outcomes are kept.                                                 *)
(***************************************************************************)
IsOverrun(c) ==
    /\ c.op = "write_buffer"
    /\ c.target = "instance_buffer"
    /\ c.args[1] + c.args[2] > SpritePipeline_new.instance_binding.size

Overrun(l) == \E i \in 1..Len(l) : IsOverrun(l[i])

UncapturedError(l) == IF Overrun(l) THEN {TRUE, FALSE} ELSE {FALSE}

\* The calls made up to the panic.
Aborted(l) ==
    LET i == CHOOSE k \in 1..Len(l) : IsOverrun(l[k]) /\ \A j \in 1..(k - 1) : ~IsOverrun(l[j])
    IN  SubSeq(l, 1, i) \o << Call("panic", "wgpu error", <<>>) >>

(***************************************************************************)
(* application.rs.  last_frame and run_update_systems (an empty function)  *)
(* carry no state of interest and are left out.                            *)
(***************************************************************************)
Event(kind, size, acquired) == [kind |-> kind, size |-> size, acquired |-> acquired]

run_startup_systems(w) ==
    w \o << Entity({"PrimaryCamera", "OrthographicProjection", "Transform"},
                   Transform_new(<<0, 0>>, 0, <<1, 1>>)),
            Entity({"Sprite", "Transform"}, Transform_from_translation(20, 20)),
            Entity({"Sprite", "Transform"}, Transform_from_translation(100, 20)),
            Entity({"Sprite", "Transform"}, Transform_from_translation(300, 20)) >>

\* The RedrawRequested arm with only Lost matched by the first pattern.
window_event_RedrawRequested_lost_only(context, w, size, acquired) ==
    LET redraw == << Call("request_redraw", "window", <<>>) >>
        rendered == render(Unwrap(context), w, acquired)
    IN  IF rendered.result = "Lost"
        THEN LET resized == resize(rendered.self, size[1], size[2])
             IN  [render_context |-> Some(resized.self),
                  log |-> redraw \o rendered.log
                          \o << Call("warn", "lost or outdated", <<>>) >> \o resized.log]
        ELSE [render_context |-> Some(rendered.self),
              log |-> redraw \o rendered.log
                      \o (IF rendered.result = "Ok" THEN <<>>
                          ELSE << Call("warn", "error while drawing", <<>>) >>)]

\* The RedrawRequested arm with every error matched by the first pattern.
window_event_RedrawRequested_any_error(context, w, size, acquired) ==
    LET redraw == << Call("request_redraw", "window", <<>>) >>
        rendered == render(Unwrap(context), w, acquired)
    IN  IF rendered.result # "Ok"
        THEN LET resized == resize(rendered.self, size[1], size[2])
             IN  [render_context |-> Some(resized.self),
                  log |-> redraw \o rendered.log
                          \o << Call("warn", "lost or outdated", <<>>) >> \o resized.log]
        ELSE [render_context |-> Some(rendered.self), log |-> redraw \o rendered.log]

\* The RedrawRequested arm with Timeout added to the first pattern.
window_event_RedrawRequested_timeout_as_lost(context, w, size, acquired) ==
    LET redraw == << Call("request_redraw", "window", <<>>) >>
        rendered == render(Unwrap(context), w, acquired)
    IN  IF rendered.result \in {"Lost", "Outdated", "Timeout"}
        THEN LET resized == resize(rendered.self, size[1], size[2])
             IN  [render_context |-> Some(resized.self),
                  log |-> redraw \o rendered.log
                          \o << Call("warn", "lost or outdated", <<>>) >> \o resized.log]
        ELSE [render_context |-> Some(rendered.self),
              log |-> redraw \o rendered.log
                      \o (IF rendered.result = "Ok" THEN <<>>
                          ELSE << Call("warn", "error while drawing", <<>>) >>)]

\* The RedrawRequested arm that asks for the next redraw after a frame that
\* was rendered only.
window_event_RedrawRequested_redraw_on_success(context, w, size, acquired) ==
    LET redraw == << Call("request_redraw", "window", <<>>) >>
        rendered == render(Unwrap(context), w, acquired)
    IN  IF rendered.result \in {"Lost", "Outdated"}
        THEN LET resized == resize(rendered.self, size[1], size[2])
             IN  [render_context |-> Some(resized.self),
                  log |-> rendered.log
                          \o << Call("warn", "lost or outdated", <<>>) >> \o resized.log]
        ELSE IF rendered.result # "Ok"
        THEN [render_context |-> Some(rendered.self),
              log |-> rendered.log \o << Call("warn", "error while drawing", <<>>) >>]
        ELSE [render_context |-> Some(rendered.self),
              log |-> rendered.log \o redraw]

\* The RedrawRequested arm of window_event, from the unwrap of primary_window
\* on: `size` is what window.inner_size() returns, `acquired` what
\* surface.get_current_texture() returns.
window_event_RedrawRequested(context, w, size, acquired) ==
    LET redraw == << Call("request_redraw", "window", <<>>) >>
    IN  IF ~IsSome(context)
        THEN [render_context |-> context, log |-> redraw]
        ELSE LET rendered == render(Unwrap(context), w, acquired)
             IN  IF rendered.result \in {"Lost", "Outdated"}
                 THEN LET resized == resize(rendered.self, size[1], size[2])
                      IN  [render_context |-> Some(resized.self),
                           log |-> redraw \o rendered.log
                                   \o << Call("warn", "lost or outdated", <<>>) >>
                                   \o resized.log]
                 ELSE IF rendered.result # "Ok"
                 THEN [render_context |-> Some(rendered.self),
                       log |-> redraw \o rendered.log
                               \o << Call("warn", "error while drawing", <<>>) >>]
                 ELSE [render_context |-> Some(rendered.self),
                       log |-> redraw \o rendered.log]

\* The Resized arm creating the render context when there is none.
window_event_Resized_creates_context(context, new_size) ==
    IF IsSome(context)
    THEN LET resized == resize(Unwrap(context), new_size[1], new_size[2])
         IN  [render_context |-> Some(resized.self), log |-> resized.log]
    ELSE [render_context |-> Some(RenderContext_new(new_size)),
          log |-> << Call("configure", "surface", <<new_size[1], new_size[2]>>) >>]

\* The Resized arm of window_event.
window_event_Resized(context, new_size) ==
    IF IsSome(context)
    THEN LET resized == resize(Unwrap(context), new_size[1], new_size[2])
         IN  [render_context |-> Some(resized.self), log |-> resized.log]
    ELSE [render_context |-> context, log |-> <<>>]

Init ==
    /\ world = <<>>
    /\ render_context = None
    /\ primary_window = None
    /\ window_size = <<0, 0>>
    /\ pending = FALSE
    /\ log = <<>>
    /\ exiting = FALSE
    /\ resumes = 0
    /\ event = Event("new", <<0, 0>>, "")
    /\ panicked = FALSE
    /\ redraw_requested = FALSE
    /\ last_frame = 0
    /\ returned = <<>>

\* resumed(): the window is created with a size the window system chooses.
Resumed(size) ==
    /\ ~exiting
    /\ ~panicked
    /\ resumes < MaxResumed
    /\ resumes' = resumes + 1
    /\ primary_window' = Some(resumes + 1)
    /\ window_size' = size
    /\ pending' = FALSE
    /\ render_context' = Some(RenderContext_new(size))
    /\ world' = run_startup_systems(world)
    /\ log' = << Call("create_window", "event_loop", <<>>),
                 Call("configure", "surface", <<size[1], size[2]>>) >>
    /\ event' = Event("resumed", size, "")
    /\ redraw_requested' = TRUE
    /\ last_frame' = 1 - last_frame
    /\ UNCHANGED <<exiting, panicked, returned>>

\* The user or the window system changes the size of the window; the Resized
\* event that reports it is queued (a queued one is replaced: the window
\* system reports the latest size).
WindowResize(size) ==
    /\ ~exiting
    /\ ~panicked
    /\ IsSome(primary_window)
    /\ size # window_size
    /\ window_size' = size
    /\ pending' = TRUE
    /\ UNCHANGED <<world, render_context, primary_window, log, exiting, resumes, event, panicked,
                   redraw_requested, last_frame, returned>>

\* window_event(RedrawRequested): delivered for an existing window, once a
\* redraw was requested (creating the window requests the first).
RedrawRequested(acquired) ==
    /\ ~exiting
    /\ ~panicked
    /\ IsSome(primary_window)
    /\ redraw_requested
    /\ last_frame' = 1 - last_frame
    /\ LET handled == window_event_RedrawRequested(render_context, world, window_size, acquired)
       IN  /\ \E abort \in UncapturedError(handled.log) :
                 /\ panicked' = abort
                 /\ render_context' = IF abort THEN render_context ELSE handled.render_context
                 /\ log' = IF abort THEN Aborted(handled.log) ELSE handled.log
           /\ redraw_requested' = (Calls(handled.log, "request_redraw") > 0)
    /\ event' = Event("RedrawRequested", window_size, acquired)
    /\ UNCHANGED <<world, primary_window, window_size, pending, exiting, resumes, returned>>

\* window_event(Resized(new_size)): the queued event is delivered.
Resized ==
    /\ ~exiting
    /\ ~panicked
    /\ pending
    /\ LET handled == window_event_Resized(render_context, window_size)
       IN  /\ render_context' = handled.render_context
           /\ log' = handled.log
    /\ event' = Event("Resized", window_size, "")
    /\ pending' = FALSE
    /\ UNCHANGED <<world, primary_window, window_size, exiting, resumes, panicked,
                   redraw_requested, last_frame, returned>>

\* window_event(CloseRequested): event_loop.exit().
CloseRequested ==
    /\ ~exiting
    /\ ~panicked
    /\ IsSome(primary_window)
    /\ exiting' = TRUE
    /\ log' = << Call("exit", "event_loop", <<>>) >>
    /\ event' = Event("CloseRequested", <<0, 0>>, "")
    /\ UNCHANGED <<world, render_context, primary_window, window_size, pending, resumes, panicked,
                   redraw_requested, last_frame, returned>>

Next ==
    \/ \E size \in PositiveSizes : Resumed(size)
    \/ \E size \in Sizes : WindowResize(size)
    \/ \E acquired \in AcquireResults : RedrawRequested(acquired)
    \/ Resized
    \/ CloseRequested

Spec == Init /\ [][Next]_vars

\* The life of one window: resumed() once, then the events of that window.
\* winit delivers a RedrawRequested event for every redraw that was requested.
LiveNext ==
    \/ \E size \in PositiveSizes : resumes = 0 /\ Resumed(size)
    \/ \E size \in Sizes : WindowResize(size)
    \/ \E acquired \in AcquireResults : RedrawRequested(acquired)
    \/ Resized
    \/ CloseRequested

SpecLive ==
    Init /\ [][LiveNext]_vars /\ WF_vars(\E acquired \in AcquireResults : RedrawRequested(acquired))

(***************************************************************************)
(* The handlers of VenturaApp called in any order from VenturaApp::new on, *)
(* also before the first resumed(): they are the public methods of the     *)
(* ApplicationHandler implementation.                                      *)
(***************************************************************************)
\* window_event(RedrawRequested), whole: primary_window.unwrap() panics when
\* there is no window.
RedrawRequestedAnytime(acquired) ==
    /\ ~exiting
    /\ ~panicked
    /\ last_frame' = 1 - last_frame
    /\ event' = Event("RedrawRequested", window_size, acquired)
    /\ IF IsSome(primary_window)
       THEN LET handled == window_event_RedrawRequested(render_context, world, window_size, acquired)
            IN  /\ \E abort \in UncapturedError(handled.log) :
                      /\ panicked' = abort
                      /\ render_context' = IF abort THEN render_context ELSE handled.render_context
                      /\ log' = IF abort THEN Aborted(handled.log) ELSE handled.log
                /\ redraw_requested' = (Calls(handled.log, "request_redraw") > 0)
       ELSE /\ panicked' = TRUE
            /\ log' = << Call("panic", "unwrap", <<>>) >>
            /\ UNCHANGED <<render_context, redraw_requested>>
    /\ UNCHANGED <<world, primary_window, window_size, pending, exiting, resumes, returned>>

\* window_event(Resized(new_size)) with any size.
ResizedAnytime(new_size) ==
    /\ ~exiting
    /\ ~panicked
    /\ LET handled == window_event_Resized(render_context, new_size)
       IN  /\ render_context' = handled.render_context
           /\ log' = handled.log
    /\ event' = Event("Resized", new_size, "")
    /\ UNCHANGED <<world, primary_window, window_size, pending, exiting, resumes, panicked,
                   redraw_requested, last_frame, returned>>

HandlersNext ==
    \/ \E size \in PositiveSizes : Resumed(size)
    \/ \E acquired \in AcquireResults : RedrawRequestedAnytime(acquired)
    \/ \E size \in Sizes : ResizedAnytime(size)
    \/ CloseRequested

SpecHandlers == Init /\ [][HandlersNext]_vars

(***************************************************************************)
(* The render context driven directly, on worlds other than the one the    *)
(* application spawns: render, prepare and draw are public and take any    *)
(* world.  `world` is the world the caller passed last.                    *)
(***************************************************************************)
SpriteA == Entity({"Sprite", "Transform"}, Transform_from_translation(20, 20))
SpriteB == Entity({"Sprite", "Transform"}, Transform_new(<<100, 20>>, 1, <<32, 16>>))
CameraA == Entity({"PrimaryCamera", "OrthographicProjection", "Transform"},
                  Transform_new(<<0, 0>>, 0, <<1, 1>>))
CameraB == Entity({"PrimaryCamera", "OrthographicProjection", "Transform"},
                  Transform_new(<<6, 4>>, 0, <<1, 1>>))
Bare == Entity({"Transform"}, Transform_default)
Marker == Entity({"PrimaryCamera", "OrthographicProjection", "Transform", "Sprite"},
                 Transform_new(<<6, 4>>, 0, <<1, 1>>))

EntityKinds == {SpriteA, CameraA}

SmallWorlds ==
    UNION {[1..n -> EntityKinds] : n \in 0..MaxEntities}
    \cup {<<SpriteB, SpriteA>>, <<CameraA, CameraB>>, <<CameraB, CameraA>>, <<Bare, SpriteB>>,
          <<Marker, SpriteA, CameraA, Marker>>, run_startup_systems(<<>>)}

CoreInit ==
    /\ world = <<>>
    /\ LET size == <<4, 2>>
       IN  /\ render_context = Some(RenderContext_new(size))
           /\ window_size = size
           /\ event = Event("new", size, "")
    /\ primary_window = None
    /\ pending = FALSE
    /\ log = <<>>
    /\ exiting = FALSE
    /\ resumes = 0
    /\ panicked = FALSE
    /\ redraw_requested = FALSE
    /\ last_frame = 0
    /\ returned = <<>>

CoreRender(w, acquired) ==
    /\ ~panicked
    /\ LET rendered == render(Unwrap(render_context), w, acquired)
       IN  \E abort \in UncapturedError(rendered.log) :
              /\ panicked' = abort
              /\ render_context' = IF abort THEN render_context ELSE Some(rendered.self)
              /\ log' = IF abort THEN Aborted(rendered.log) ELSE rendered.log
    /\ world' = w
    /\ event' = Event("render", <<0, 0>>, acquired)
    /\ UNCHANGED <<primary_window, window_size, pending, exiting, resumes,
                   redraw_requested, last_frame, returned>>

CorePrepare(w) ==
    /\ ~panicked
    /\ LET prepared == prepare(Unwrap(render_context).sprite_pipeline, w)
       IN  \E abort \in UncapturedError(prepared.log) :
              /\ panicked' = abort
              /\ render_context' =
                    IF abort THEN render_context
                    ELSE Some([Unwrap(render_context) EXCEPT !.sprite_pipeline = prepared.self])
              /\ log' = IF abort THEN Aborted(prepared.log) ELSE prepared.log
    /\ world' = w
    /\ event' = Event("prepare", <<0, 0>>, "")
    /\ UNCHANGED <<primary_window, window_size, pending, exiting, resumes,
                   redraw_requested, last_frame, returned>>

CoreDraw ==
    /\ ~panicked
    /\ log' = draw(Unwrap(render_context).sprite_pipeline)
    /\ event' = Event("draw", <<0, 0>>, "")
    /\ UNCHANGED <<world, render_context, primary_window, window_size, pending, exiting, resumes, panicked,
                   redraw_requested, last_frame, returned>>

\* A failed render does not read the world: it is taken on the world passed last.
CoreNext ==
    \/ \E w \in SmallWorlds : CoreRender(w, "Ok")
    \/ \E acquired \in SurfaceErrors : CoreRender(world, acquired)
    \/ \E w \in SmallWorlds : CorePrepare(w)
    \/ CoreDraw

SpecCore == CoreInit /\ [][CoreNext]_vars

(***************************************************************************)
(* The sprite pipeline at the capacity of its instance buffer: the world   *)
(* is chosen at the start, among them worlds of MAX_INSTANCES and of       *)
(* MAX_INSTANCES + 1 sprites, and prepared, drawn and, by RedrawRequested  *)
(* events of an application that holds this world, rendered.               *)
(***************************************************************************)
SpriteWorld(n) == [i \in 1..n |-> SpriteA]

CapacityWorlds == SmallWorlds \cup {SpriteWorld(MAX_INSTANCES), SpriteWorld(MAX_INSTANCES + 1)}

CapacityInit ==
    /\ world \in CapacityWorlds
    /\ LET size == <<4, 2>>
       IN  /\ render_context = Some(RenderContext_new(size))
           /\ window_size = size
           /\ event = Event("new", size, "")
    /\ primary_window = Some(1)
    /\ pending = FALSE
    /\ log = <<>>
    /\ exiting = FALSE
    /\ resumes = 1
    /\ panicked = FALSE
    /\ redraw_requested = TRUE
    /\ last_frame = 0
    /\ returned = <<>>

CapacityNext ==
    \/ RedrawRequested("Ok")
    \/ CorePrepare(world)
    \/ CoreDraw

SpecCapacity == CapacityInit /\ [][CapacityNext]_vars

(***************************************************************************)
(* Texture::from_bytes called on its own, once, on every short byte        *)
(* string.                                                                 *)
(***************************************************************************)
ByteStrings == UNION {[1..n -> 0..MaxByte] : n \in 0..MaxBytes}

FromBytes(bytes) ==
    /\ returned = <<>>
    /\ LET loaded == Texture_from_bytes(bytes)
       IN  /\ returned' = [bytes |-> bytes, result |-> loaded.result]
           /\ log' = loaded.log
    /\ event' = Event("from_bytes", <<0, 0>>, "")
    /\ UNCHANGED <<world, render_context, primary_window, window_size, pending, exiting,
                   resumes, panicked, redraw_requested, last_frame>>

TextureNext == \E bytes \in ByteStrings : FromBytes(bytes)

SpecTexture == Init /\ [][TextureNext]_vars

(***************************************************************************)
(* Transform::matrix called on its own, once, on every transform with      *)
(* small integer position and scale and a rotation of whole quarter turns. *)
(***************************************************************************)
Transforms ==
    {Transform_new(<<x, y>>, q, <<sx, sy>>) :
        x \in -MaxCoord..MaxCoord, y \in -MaxCoord..MaxCoord, q \in 0..3,
        sx \in 0..MaxScale, sy \in 0..MaxScale}

Matrix(transform) ==
    /\ returned = <<>>
    /\ returned' = [transform |-> transform, matrix |-> matrix(transform)]
    /\ event' = Event("matrix", <<0, 0>>, "")
    /\ UNCHANGED <<world, render_context, primary_window, window_size, pending, log, exiting,
                   resumes, panicked, redraw_requested, last_frame>>

TransformNext == \E transform \in Transforms : Matrix(transform)

SpecTransform == Init /\ [][TransformNext]_vars

(***************************************************************************)
(* Properties.                                                             *)
(***************************************************************************)
configuration == Unwrap(render_context).surface_configuration
pipeline == Unwrap(render_context).sprite_pipeline
IsPositive(size) == size[1] > 0 /\ size[2] > 0
AsConfiguration(size) == [width |-> size[1], height |-> size[2]]

\* C1 as stated: a RedrawRequested whose acquisition reports Lost or Outdated
\* makes one acquisition attempt and reconfigures the surface with the
\* window's current dimensions.
C1_LostAlwaysReconfigures ==
    (event.kind = "RedrawRequested" /\ event.acquired \in {"Lost", "Outdated"})
    => /\ Calls(log, "get_current_texture") = 1
       /\ Calls(log, "configure") = 1
       /\ configuration = AsConfiguration(event.size)

\* C1 amended: a RedrawRequested whose acquisition reports Lost or Outdated
\* makes one acquisition attempt and submits and presents nothing; when both
\* of the window's current dimensions are positive it then reconfigures the
\* surface once with them, and otherwise it leaves the render context as it
\* was and does not reconfigure.
C1_LostReconfiguresWhenPositive ==
    [][\A acquired \in {"Lost", "Outdated"} :
         RedrawRequested(acquired) =>
           LET old == Unwrap(render_context)
               new == Unwrap(render_context')
           IN  /\ Calls(log', "get_current_texture") = 1
               /\ Calls(log', "submit") = 0 /\ Calls(log', "present") = 0
               /\ IF IsPositive(window_size)
                  THEN /\ log' = << Call("request_redraw", "window", <<>>),
                                    Call("get_current_texture", acquired, <<>>),
                                    Call("return", acquired, <<>>),
                                    Call("warn", "lost or outdated", <<>>),
                                    Call("configure", "surface", window_size) >>
                       /\ new = [old EXCEPT !.surface_configuration = AsConfiguration(window_size)]
                  ELSE /\ new = old
                       /\ Calls(log', "configure") = 0]_vars

\* An Outdated acquisition was handled while the surface had another size
\* than the window: the surface now has the window's size.
C1_Witness ==
    /\ event.kind = "RedrawRequested" /\ event.acquired = "Outdated"
    /\ Calls(log, "configure") = 1
    /\ configuration = AsConfiguration(event.size)
    /\ Unwrap(render_context).camera_buffer.view_projection # <<>>
    /\ Unwrap(render_context).camera_buffer.view_projection[1].right * 2 # configuration.width

\* C2: a RedrawRequested whose acquisition fails with an error other than
\* Lost or Outdated makes that one acquisition attempt, submits and presents
\* nothing, does not reconfigure, leaves the render context (the surface
\* configuration with it) as it was, and leaves the application able to
\* handle the next RedrawRequested, which again starts with an acquisition.
C2_OtherErrorSkipsFrame ==
    [][\A acquired \in AcquireResults :
         (event'.kind = "RedrawRequested" /\ event'.acquired = acquired
          /\ RedrawRequested(acquired)) =>
           /\ Calls(log', "get_current_texture") = 1
           /\ log'[2].op = "get_current_texture"
           /\ acquired \notin {"Ok", "Lost", "Outdated"} =>
                /\ render_context' = render_context
                /\ Calls(log', "configure") = 0
                /\ Calls(log', "submit") = 0 /\ Calls(log', "present") = 0
                /\ ~exiting' /\ IsSome(primary_window') /\ IsSome(render_context')]_vars

\* An OutOfMemory acquisition was handled while the surface had another
\* size than the window.
C2_Witness ==
    /\ event.kind = "RedrawRequested" /\ event.acquired = "OutOfMemory"
    /\ IsPositive(event.size)
    /\ configuration # AsConfiguration(event.size)

\* C3 as stated: a RedrawRequested whose acquisition reports Timeout
\* reconfigures the surface, as one that reports Lost or Outdated does.
C3_TimeoutReconfigures ==
    (event.kind = "RedrawRequested" /\ event.acquired = "Timeout" /\ IsPositive(event.size))
    => /\ Calls(log, "configure") = 1
       /\ configuration = AsConfiguration(event.size)

\* C3 amended: a RedrawRequested whose acquisition reports Timeout takes the
\* path of the other errors: it logs the error, does not reconfigure the
\* surface and leaves the render context as it was; the frame is attempted
\* again on the next RedrawRequested.
C3_TimeoutSkipsFrame ==
    [][RedrawRequested("Timeout") =>
         /\ log' = << Call("request_redraw", "window", <<>>),
                      Call("get_current_texture", "Timeout", <<>>),
                      Call("return", "Timeout", <<>>),
                      Call("warn", "error while drawing", <<>>) >>
         /\ render_context' = render_context
         /\ ~exiting' /\ IsSome(primary_window')]_vars

\* A Timeout was handled while the surface had another size than the window.
C3_Witness ==
    /\ event.kind = "RedrawRequested" /\ event.acquired = "Timeout"
    /\ IsPositive(event.size)
    /\ configuration # AsConfiguration(event.size)
    /\ Calls(log, "configure") = 0

\* C4: a Resized event (RenderContext::resize(w, h)) with w = 0 or h = 0
\* leaves the render context as it was and does not reconfigure the surface;
\* with w > 0 and h > 0 it sets the stored width and height to (w, h),
\* changes nothing else, and reconfigures the surface once, with (w, h).
C4_ResizeGuardsEmptySize ==
    [][Resized =>
         LET old == Unwrap(render_context)
             new == Unwrap(render_context')
         IN  IF IsPositive(window_size)
             THEN /\ new.surface_configuration = AsConfiguration(window_size)
                  /\ new = [old EXCEPT !.surface_configuration = AsConfiguration(window_size)]
                  /\ log' = << Call("configure", "surface", window_size) >>
             ELSE /\ new = old
                  /\ Calls(log', "configure") = 0]_vars

\* A Resized event with an empty width and a positive height was handled.
C4_Witness ==
    /\ event.kind = "Resized"
    /\ event.size[1] = 0 /\ event.size[2] > 0
    /\ IsPositive(<<configuration.width, configuration.height>>)
    /\ Calls(log, "warn") = 1

CountSprites(w) == Cardinality({i \in 1..Len(w) : {"Transform", "Sprite"} \subseteq w[i].components})

\* The place in w, a world in spawn order, of the first entity with the
\* component types of the entity at place i.
FirstUse(w, i) ==
    CHOOSE j \in 1..i : /\ w[j].components = w[i].components
                        /\ \A k \in 1..(j - 1) : w[k].components # w[i].components

IsSprite(e) == {"Transform", "Sprite"} \subseteq e.components

\* The place, among the sprite entities of w, at which the store's query
\* visits the one spawned i-th in w.
VisitRank(w, i) ==
    1 + Cardinality({k \in 1..Len(w) :
            /\ IsSprite(w[k])
            /\ \/ FirstUse(w, k) < FirstUse(w, i)
               \/ (FirstUse(w, k) = FirstUse(w, i) /\ k < i)})

\* Where the call c is first made in the log l (0: nowhere).
PosCall(l, c) ==
    IF \E i \in 1..Len(l) : l[i] = c
    THEN CHOOSE i \in 1..Len(l) : l[i] = c /\ \A j \in 1..(i - 1) : l[j] # c
    ELSE 0

InstanceUpload(n) == Call("write_buffer", "instance_buffer", <<0, n * SIZE_OF_Mat4>>)

\* C5: a call of render whose acquisition fails leaves the render context
\* as it was (camera uniform, instance buffer, instance_count) and makes no
\* call but the acquisition: no buffer write, no submission, no present; a
\* call whose acquisition succeeds performs the camera update, prepare, the
\* render pass, draw, submit and present once each and returns Ok.
C5_RenderAllOrNothing ==
    [][event'.kind = "render" =>
         IF event'.acquired # "Ok"
         THEN /\ render_context' = render_context
              /\ log' = << Call("get_current_texture", event'.acquired, <<>>),
                           Call("return", event'.acquired, <<>>) >>
         ELSE /\ \A op \in {"get_current_texture", "update_camera_buffer", "prepare",
                              "begin_render_pass", "draw", "draw_indexed",
                              "end_render_pass", "submit", "present"} :
                    Calls(log', op) = 1
              /\ log'[1] = Call("get_current_texture", "Ok", <<>>)
              /\ log'[Len(log')] = Call("return", "Ok", <<>>)]_vars

\* A render failed after a frame with a camera and sprites had completed.
C5_Witness ==
    /\ event.kind = "render" /\ event.acquired = "Lost"
    /\ pipeline.instance_count > 0
    /\ Unwrap(render_context).camera_buffer.view_projection # <<>>
    /\ Calls(log, "write_buffer") = 0

\* C6 as stated: in a frame whose acquisition succeeds the render pass is
\* begun, then the camera uniform updated, then prepare called, then draw
\* issued, the pass ended, the command buffer submitted, the image presented.
C6_PassBegunBeforeCameraUpdate ==
    (event.kind = "render" /\ event.acquired = "Ok")
    => /\ Pos(log, "begin_render_pass") < Pos(log, "update_camera_buffer")
       /\ Pos(log, "update_camera_buffer") < Pos(log, "prepare")
       /\ Pos(log, "prepare") < Pos(log, "draw")
       /\ Pos(log, "draw") < Pos(log, "end_render_pass")
       /\ Pos(log, "end_render_pass") < Pos(log, "submit")
       /\ Pos(log, "submit") < Pos(log, "present")

\* C6 amended: in a frame whose acquisition succeeds the camera uniform is
\* updated, then prepare called (its upload made), then the single render
\* pass begun, clearing to CLEAR_COLOR, then draw issued, the pass ended, the
\* command buffer submitted, the image presented.
C6_FrameStepOrder ==
    (event.kind = "render" /\ event.acquired = "Ok")
    => /\ Calls(log, "begin_render_pass") = 1
       /\ log[Pos(log, "begin_render_pass")].args = <<1, 1, 1, 100>>
       /\ Pos(log, "get_current_texture") < Pos(log, "update_camera_buffer")
       /\ Pos(log, "update_camera_buffer") < Pos(log, "prepare")
       /\ Pos(log, "prepare") < PosCall(log, InstanceUpload(CountSprites(world)))
       /\ PosCall(log, InstanceUpload(CountSprites(world))) < Pos(log, "begin_render_pass")
       /\ Pos(log, "begin_render_pass") < Pos(log, "draw")
       /\ Pos(log, "draw") < Pos(log, "draw_indexed")
       /\ Pos(log, "draw_indexed") < Pos(log, "end_render_pass")
       /\ Pos(log, "end_render_pass") < Pos(log, "submit")
       /\ Pos(log, "submit") < Pos(log, "present")

\* A frame with a camera and three sprites was rendered.
C6_Witness ==
    /\ event.kind = "render" /\ event.acquired = "Ok"
    /\ CountSprites(world) = 3
    /\ Calls(log, "write_buffer") = 2
    /\ Calls(log, "present") = 1

\* C7: prepare on a world with N sprite entities, N within the capacity,
\* makes one upload, of the N matrices of those entities in the order the
\* store's query visits them, at offset 0, and sets instance_count to N,
\* whatever the call before had uploaded.
C7_PrepareUploadsExactlyN ==
    (event.kind = "prepare" /\ CountSprites(world) <= MAX_INSTANCES)
    => LET n == CountSprites(world)
           contents == pipeline.instance_binding.contents
       IN  /\ log = << InstanceUpload(n) >>
           /\ pipeline.instance_count = n
           /\ Len(contents) >= n
           /\ \A i \in 1..Len(world) :
                 IsSprite(world[i])
                 => contents[VisitRank(world, i)] =
                       SpriteInstanceData_new(matrix(world[i].transform))

\* prepare ran on a world with fewer sprites than a call before it had
\* uploaded: records of that call are still behind the new ones.
C7_Witness ==
    /\ event.kind = "prepare"
    /\ pipeline.instance_count = 1
    /\ CountSprites(world) = 1
    /\ Len(pipeline.instance_binding.contents) > 1

\* C8: a frame that is submitted holds one indexed draw, of 6 indices and
\* the instance range 0..n, n the number of entities of the frame's world
\* with both Transform and Sprite; the upload of these n records precedes
\* the draw and the submission.  A draw alone uses the instance_count the
\* pipeline holds, which is 0 on a new pipeline.
C8_DrawsPreparedInstances ==
    /\ (event.kind = "render" /\ event.acquired = "Ok")
       => LET n == CountSprites(world)
          IN  /\ Calls(log, "submit") = 1
              /\ Calls(log, "draw_indexed") = 1
              /\ log[Pos(log, "draw_indexed")] = Call("draw_indexed", "", <<0, 6, 0, 0, n>>)
              /\ PosCall(log, InstanceUpload(n)) > 0
              /\ PosCall(log, InstanceUpload(n)) < Pos(log, "draw_indexed")
              /\ Pos(log, "draw_indexed") < Pos(log, "submit")
    /\ event.kind = "draw"
       => /\ Calls(log, "draw_indexed") = 1
          /\ log[Len(log)] = Call("draw_indexed", "", <<0, 6, 0, 0, pipeline.instance_count>>)
          /\ pipeline = SpritePipeline_new => log[Len(log)].args[5] = 0

\* A frame with two sprites was rendered and drawn with the range 0..2.
C8_Witness ==
    /\ event.kind = "render" /\ event.acquired = "Ok"
    /\ CountSprites(world) = 2
    /\ Call("draw_indexed", "", <<0, 6, 0, 0, 2>>) \in {log[i] : i \in 1..Len(log)}

\* C9: every upload prepare makes lies within the instance buffer; with as
\* many sprites as the capacity it covers the buffer exactly.
C9_UploadWithinBuffer ==
    /\ \A i \in 1..Len(log) :
          (log[i].op = "write_buffer" /\ log[i].target = "instance_buffer")
          => log[i].args[1] + log[i].args[2] <= pipeline.instance_binding.size
    /\ Len(pipeline.instance_binding.contents) * SIZE_OF_Mat4 <= pipeline.instance_binding.size
    /\ (event.kind = "prepare" /\ CountSprites(world) = MAX_INSTANCES)
       => log = << Call("write_buffer", "instance_buffer", <<0, pipeline.instance_binding.size>>) >>

\* C10: prepare on a world with more sprites than the capacity reports an
\* error, and instance_count never exceeds the capacity.
C10_InstanceCountWithinCapacity ==
    /\ pipeline.instance_count <= MAX_INSTANCES
    /\ (event.kind = "prepare" /\ CountSprites(world) > MAX_INSTANCES)
       => Calls(log, "warn") + Calls(log, "error") >= 1

\* C11: once the render context exists, no RedrawRequested or Resized event
\* panics, whatever the acquisition reports and whatever entities the world
\* holds.
C11_FrameErrorsContained ==
    (IsSome(render_context) /\ event.kind \in {"RedrawRequested", "Resized"}) => ~panicked

\* The entities of w the camera query matches, in w's order.
Cameras(w) ==
    SelectSeq(w, LAMBDA e :
        {"Transform", "OrthographicProjection", "PrimaryCamera"} \subseteq e.components)

\* projection * view for a surface of width x height and a camera at position:
\* the centred orthographic volume and the look-at along +Z.
ExpectedUniform(width, height, position) ==
    [view_projection |->
        << [left |-> -(width \div 2), right |-> width \div 2,
            bottom |-> -(height \div 2), top |-> height \div 2, near |-> -1, far |-> 1],
           [eye |-> <<position[1], position[2], 0>>,
            center |-> <<position[1], position[2], 1>>,
            up |-> <<0, 1, 0>>] >>]

\* C12: with one camera entity in the world, a frame that is rendered
\* uploads, once, the camera uniform computed from the width and height the
\* surface configuration holds when the frame starts (those of the last
\* accepted resize), whatever uniform an earlier frame uploaded.
C12_CameraUsesStoredSize ==
    [][(/\ event'.kind = "RedrawRequested"
        /\ event'.acquired = "Ok"
        /\ IsSome(render_context)
        /\ Len(Cameras(world)) = 1)
       => /\ Unwrap(render_context').camera_buffer =
                ExpectedUniform(configuration.width, configuration.height,
                                Cameras(world)[1].transform.position)
          /\ Cardinality({i \in 1..Len(log') :
                 log'[i] = Call("write_buffer", "camera_buffer", <<0, SIZE_OF_Mat4>>)}) = 1
          /\ Unwrap(render_context').surface_configuration = configuration]_vars

\* A frame was rendered while the window already had another size, its
\* Resized event not yet delivered: the uniform is the one for the stored
\* configuration.
C12_Witness ==
    /\ event.kind = "RedrawRequested" /\ event.acquired = "Ok"
    /\ Len(Cameras(world)) = 1
    /\ pending /\ IsPositive(window_size)
    /\ AsConfiguration(window_size) # configuration
    /\ Unwrap(render_context).camera_buffer =
          ExpectedUniform(configuration.width, configuration.height, <<0, 0>>)

CameraWrites(l) ==
    Cardinality({i \in 1..Len(l) : l[i] = Call("write_buffer", "camera_buffer", <<0, SIZE_OF_Mat4>>)})

IsCamera(e) == {"Transform", "OrthographicProjection", "PrimaryCamera"} \subseteq e.components

\* The camera entity a query over w visits last: of the component sets that
\* cameras have, the one first used latest; of its entities, the one spawned last.
LastVisitedCamera(w) ==
    LET cameras == {i \in 1..Len(w) : IsCamera(w[i])}
        last == CHOOSE i \in cameras :
                    \A k \in cameras : \/ FirstUse(w, k) < FirstUse(w, i)
                                        \/ (FirstUse(w, k) = FirstUse(w, i) /\ k <= i)
    IN  w[last]

\* C13 as stated: a camera update on a world without camera entity writes
\* nothing and the uniform keeps its value; on a world with several, the
\* uniform ends as the one of the camera entity created last.
C13_LastCreatedCameraWins ==
    [][(event'.kind = "render" /\ event'.acquired = "Ok")
       => IF Cameras(world') = <<>>
          THEN /\ Unwrap(render_context').camera_buffer = Unwrap(render_context).camera_buffer
               /\ CameraWrites(log') = 0
          ELSE Unwrap(render_context').camera_buffer =
                  ExpectedUniform(configuration.width, configuration.height,
                      Cameras(world')[Len(Cameras(world'))].transform.position)]_vars

\* C13 amended: a camera update on a world without camera entity writes
\* nothing and the uniform keeps its value; on a world with several, one
\* write is made per camera entity and the uniform ends as the one of the
\* camera entity the store's query visits last (entities are visited by set
\* of component types, the sets in the order of their first use, and in
\* spawn order within one set).
C13_LastVisitedCameraWins ==
    [][(event'.kind = "render" /\ event'.acquired = "Ok")
       => IF Cameras(world') = <<>>
          THEN /\ Unwrap(render_context').camera_buffer = Unwrap(render_context).camera_buffer
               /\ CameraWrites(log') = 0
          ELSE /\ Unwrap(render_context').camera_buffer =
                     ExpectedUniform(configuration.width, configuration.height,
                         LastVisitedCamera(world').transform.position)
               /\ CameraWrites(log') = Len(Cameras(world'))]_vars

\* A frame was rendered on a world whose camera spawned last is not the one
\* visited last: the uniform is the one of the camera at the origin, spawned
\* before the last.
C13_Witness ==
    /\ event.kind = "render" /\ event.acquired = "Ok"
    /\ Len(Cameras(world)) = 3
    /\ Cameras(world)[3].transform.position = <<6, 4>>
    /\ Unwrap(render_context).camera_buffer =
          ExpectedUniform(configuration.width, configuration.height, <<0, 0>>)

\* C14: in every state the application reaches, at most one entity of the
\* world carries the PrimaryCamera marker.
C14_AtMostOneCamera ==
    Cardinality({i \in 1..Len(world) : "PrimaryCamera" \in world[i].components}) <= 1

\* Translate(x, y, 0) * Scale(sx, sy, 1), by rows.
TranslateScale(x, y, sx, sy) ==
    << <<sx, 0, 0, x>>, <<0, sy, 0, y>>, <<0, 0, 1, 0>>, <<0, 0, 0, 1>>>>

StartupWorld ==
    << [components |-> {"PrimaryCamera", "OrthographicProjection", "Transform"},
        transform |-> [position |-> <<0, 0>>, rotation |-> 0, scale |-> <<1, 1>>]],
       [components |-> {"Sprite", "Transform"},
        transform |-> [position |-> <<20, 20>>, rotation |-> 0, scale |-> <<32, 32>>]],
       [components |-> {"Sprite", "Transform"},
        transform |-> [position |-> <<100, 20>>, rotation |-> 0, scale |-> <<32, 32>>]],
       [components |-> {"Sprite", "Transform"},
        transform |-> [position |-> <<300, 20>>, rotation |-> 0, scale |-> <<32, 32>>]] >>

\* C15: after prepare the instance buffer starts with one record per entity
\* of the world that has both Transform and Sprite, each at the place at
\* which the store's query visits it, and instance_count is their number;
\* entities without Sprite give no record.  For the world the application
\* spawns at startup (one camera, three sprites) these are the 3 matrices
\* Translate(pos) * Scale(32, 32), and a draw after the prepare has the
\* instance range 0..3.
C15_InstancesAreSpriteEntities ==
    /\ event.kind = "prepare"
       => /\ pipeline.instance_count = Cardinality({i \in 1..Len(world) : IsSprite(world[i])})
          /\ \A i \in 1..Len(world) :
                IsSprite(world[i])
                => pipeline.instance_binding.contents[VisitRank(world, i)] =
                      [transform |-> matrix(world[i].transform)]
    /\ (event.kind \in {"prepare", "draw"} /\ world = StartupWorld)
       => /\ pipeline.instance_count = 3
          /\ SubSeq(pipeline.instance_binding.contents, 1, 3) =
                << [transform |-> TranslateScale(20, 20, 32, 32)],
                   [transform |-> TranslateScale(100, 20, 32, 32)],
                   [transform |-> TranslateScale(300, 20, 32, 32)] >>
    /\ (event.kind = "draw" /\ world = StartupWorld)
       => log[Len(log)] = Call("draw_indexed", "", <<0, 6, 0, 0, 3>>)

\* prepare ran on a world whose sprites are not visited in spawn order: the
\* sprite spawned second has the third record.
C15_Witness ==
    /\ event.kind = "prepare"
    /\ pipeline.instance_count = 3
    /\ \E i \in 1..Len(world) : IsSprite(world[i]) /\ VisitRank(world, i) = 3 /\ i < Len(world)
    /\ Cardinality({i \in 1..Len(world) : ~IsSprite(world[i])}) = 1

\* The record of a draw in the log: after a draw alone the whole log, in a
\* frame the calls from the one after "draw" to the indexed draw.
DrawCalls(l) ==
    IF event.kind = "draw" THEN l
    ELSE SubSeq(l, Pos(l, "draw") + 1, Pos(l, "draw_indexed"))

DrawRecorded == event.kind = "draw" \/ (event.kind = "render" /\ event.acquired = "Ok")

\* C18 as stated: draw sets the pipeline, then the camera bind group at
\* slot 0, the instance bind group at slot 1, the texture bind group at
\* slot 2, then the vertex buffer at slot 0 and the index buffer, then
\* issues the indexed draw.
C18_BindGroupsBeforeBuffers ==
    DrawRecorded
    => LET calls == DrawCalls(log)
       IN  /\ Len(calls) = 7
           /\ calls[1] = Call("set_pipeline", "pipeline", <<>>)
           /\ calls[2] = Call("set_bind_group", "camera_bind_group", <<0>>)
           /\ calls[3] = Call("set_bind_group", "instance_binding", <<1>>)
           /\ calls[4] = Call("set_bind_group", "texture_binding", <<2>>)
           /\ calls[5] = Call("set_vertex_buffer", "vertex_buffer", <<0>>)
           /\ calls[6] = Call("set_index_buffer", "index_buffer", <<>>)
           /\ calls[7].op = "draw_indexed"

\* C18 amended: draw sets the pipeline, then the vertex buffer at slot 0
\* and the index buffer, then the camera bind group at slot 0, the instance
\* bind group at slot 1, the texture bind group at slot 2, then issues the
\* indexed draw.
C18_BuffersBeforeBindGroups ==
    DrawRecorded
    => LET calls == DrawCalls(log)
       IN  /\ Len(calls) = 7
           /\ calls[1] = Call("set_pipeline", "pipeline", <<>>)
           /\ calls[2] = Call("set_vertex_buffer", "vertex_buffer", <<0>>)
           /\ calls[3] = Call("set_index_buffer", "index_buffer", <<>>)
           /\ calls[4] = Call("set_bind_group", "camera_bind_group", <<0>>)
           /\ calls[5] = Call("set_bind_group", "instance_binding", <<1>>)
           /\ calls[6] = Call("set_bind_group", "texture_binding", <<2>>)
           /\ calls[7].op = "draw_indexed"

\* draw ran on a pipeline prepared with one sprite.
C18_Witness ==
    /\ event.kind = "draw"
    /\ pipeline.instance_count = 1
    /\ Calls(log, "set_bind_group") = 3

\* C19: every RedrawRequested event that is handled calls request_redraw
\* once, whatever its frame's outcome, so that a redraw is requested when
\* the handler returns; and, requested redraws being delivered, a frame
\* that failed is followed by another RedrawRequested event, and so another
\* acquisition, unless the application exits.
C19_RedrawChainContinues ==
    /\ [][event'.kind = "RedrawRequested"
           => /\ Calls(log', "request_redraw") = 1
              /\ redraw_requested']_vars
    /\ \A f \in {0, 1} :
          (event.kind = "RedrawRequested" /\ event.acquired # "Ok" /\ last_frame = f)
          ~> (\/ (event.kind = "RedrawRequested" /\ last_frame # f
                  /\ Calls(log, "get_current_texture") = 1)
              \/ exiting \/ panicked)

\* A frame failed and the frame after it failed too, a redraw being
\* requested again.
C19_Witness ==
    /\ event.kind = "RedrawRequested" /\ event.acquired = "OutOfMemory"
    /\ last_frame = 1
    /\ resumes = 1
    /\ Calls(log, "request_redraw") = 1
    /\ redraw_requested

\* C20: primary_window and render_context are both absent or both present
\* in every state; a RedrawRequested event handled while a render context
\* exists does not panic at the unwrap of the window and goes on to the
\* acquisition; a Resized event handled while no render context exists
\* changes nothing and makes no call.
C20_WindowAndContextTogether ==
    /\ [](IsSome(primary_window) <=> IsSome(render_context))
    /\ [][(event'.kind = "RedrawRequested" /\ IsSome(render_context))
           => (~panicked' /\ Calls(log', "get_current_texture") = 1)]_vars
    /\ [][(event'.kind = "Resized" /\ ~IsSome(render_context))
           => /\ log' = <<>>
              /\ UNCHANGED <<world, render_context, primary_window, panicked, exiting>>]_vars

\* A Resized event with a non-empty size was handled before any resumed().
C20_Witness ==
    /\ event.kind = "Resized"
    /\ IsPositive(event.size)
    /\ ~IsSome(render_context)
    /\ ~IsSome(primary_window)
    /\ log = <<>>

\* C16: Texture::from_bytes on bytes that are not an image returns a decode
\* error, without panicking, and has then made no GPU call: no texture is
\* created and no texture upload queued.
C16_DecodeErrorBeforeGpu ==
    (/\ event.kind = "from_bytes"
     /\ ~(/\ Len(returned.bytes) >= 4
          /\ returned.bytes[1] = 1
          /\ returned.bytes[2] * returned.bytes[3] = Len(returned.bytes) - 3))
    => /\ returned.result \in {"Unsupported", "Decoding"}
       /\ Calls(log, "create_texture") = 0
       /\ Calls(log, "write_texture") = 0
       /\ log = <<>>
       /\ ~panicked

\* from_bytes was called on bytes of the known format whose pixel data are
\* too long.
C16_Witness ==
    /\ event.kind = "from_bytes"
    /\ returned.bytes = <<1, 1, 1, 0, 0>>
    /\ returned.result = "Decoding"

\* C17: Transform::matrix is Translate(p.x, p.y, 0) * RotateZ(theta) *
\* Scale(s.x, s.y, 1): the scale is applied first, then the rotation, then
\* the translation.  By rows, with c and s the cosine and sine of theta:
\*   s.x c   -s.y s   0   p.x
\*   s.x s    s.y c   0   p.y
\*   0        0       1   0
\*   0        0       0   1
C17_MatrixIsTranslateRotateScale ==
    event.kind = "matrix"
    => LET t == returned.transform
           c == CASE t.rotation = 0 -> 1 [] t.rotation = 1 -> 0
                  [] t.rotation = 2 -> -1 [] t.rotation = 3 -> 0
           sn == CASE t.rotation = 0 -> 0 [] t.rotation = 1 -> 1
                   [] t.rotation = 2 -> 0 [] t.rotation = 3 -> -1
       IN  returned.matrix =
             << <<t.scale[1] * c, -(t.scale[2] * sn), 0, t.position[1]>>,
                <<t.scale[1] * sn, t.scale[2] * c, 0, t.position[2]>>,
                <<0, 0, 1, 0>>,
                <<0, 0, 0, 1>> >>

\* matrix was called on a transform whose three factors do not commute.
C17_Witness ==
    /\ event.kind = "matrix"
    /\ returned.transform = [position |-> <<1, -1>>, rotation |-> 1, scale |-> <<1, 2>>]
    /\ returned.matrix = << <<0, -2, 0, 1>>, <<1, 0, 0, -1>>, <<0, 0, 1, 0>>, <<0, 0, 0, 1>> >>

\* C21: a render context created with a positive width and height keeps a
\* positive surface configuration in every state; and the configuration is
\* always that of the most recent resize with two positive dimensions, or of
\* the creation when there was none: resumed() sets it to the size of the
\* new window, a Resized event and a Lost or Outdated recovery set it to the
\* size they carry when both of its dimensions are positive and leave it
\* alone otherwise, and no other step changes it.
C21_ConfigurationPositiveAndLastAccepted ==
    /\ [](IsSome(render_context) => (configuration.width > 0 /\ configuration.height > 0))
    /\ [][IsSome(render_context') =>
             configuration' =
                 IF event'.kind = "resumed" /\ resumes' # resumes
                 THEN AsConfiguration(event'.size)
                 ELSE IF /\ IsPositive(window_size)
                         /\ \/ event'.kind = "Resized" /\ pending /\ ~pending'
                            \/ /\ event'.kind = "RedrawRequested"
                               /\ event'.acquired \in {"Lost", "Outdated"}
                               /\ last_frame' # last_frame
                 THEN AsConfiguration(window_size)
                 ELSE configuration]_vars

\* A Lost recovery that carried a size with no height left the positive
\* configuration of the render context alone.
C21_Witness ==
    /\ event.kind = "RedrawRequested" /\ event.acquired = "Lost"
    /\ event.size = <<4, 0>>
    /\ resumes = 1
    /\ configuration = AsConfiguration(<<6, 4>>)
    /\ Calls(log, "configure") = 0

====
